---- MODULE Spec2Model ----
(***************************************************************************)
(* Smart Money Concepts indicator (KLineChart extension): the calc         *)
(* function that detects pivots at two lookback lengths and classifies     *)
(* the closes that break them as BOS or CHoCH.                             *)
(*                                                                         *)
(* Two implementations are modelled: the offset-confirmation calc          *)
(* (src/unnamed/part_001) under Spec, and the symmetric-window calc        *)
(* (src/src/extension/indicator/smartMoneyConcepts.ts) under SpecSym.      *)
(* Bar and result indices are 0-based as in the source; the sequences      *)
(* that hold them are 1-based, so bar k is dataList[k + 1].                *)
(***************************************************************************)
EXTENDS Integers, Sequences, FiniteSets, TLC

\* ---------------------------------------------------------------- bounds
MaxBars == 4
MaxPrice == 4
MaxSpread == 1
MaxLen == 2

\* ------------------------------------------------- JavaScript values
\* undefined: a missing bar field, an unset result slot.
Undefined == 0 - 9
\* NaN: what Number() makes of a missing or non-numeric field.
NaN == 0 - 8
\* null: the initial value of swingOs / internalOs.
Null == 0 - 7
\* -Infinity and Infinity: below and above every price the model's bars take.
NegInfinity == 0
Infinity == 2 * MaxPrice

Prices == 1..MaxPrice

\* Number(v) as the scans and the break loop apply it to a bar field.
Number(v) == IF v = Undefined THEN NaN ELSE v

\* a > b and a < b on JavaScript numbers: false as soon as one side is NaN.
Gt(a, b) == a # NaN /\ b # NaN /\ a > b
Lt(a, b) == a # NaN /\ b # NaN /\ a < b

VARIABLES
  dataList,        \* the bars handed to calc: <<[high, low, close], ...>>
  swingLength,     \* indicator.calcParams[0]
  internalLength,  \* indicator.calcParams[1]
  pc,              \* position of calc
  i,               \* index of the loop pc names
  swingOs,         \* toggle register of the swing scan
  internalOs,      \* toggle register of the internal scan
  swingHighs,      \* live swing pivot-highs  <<[index, price], ...>>
  swingLows,       \* live swing pivot-lows
  internalHighs,   \* live internal pivot-highs
  internalLows,    \* live internal pivot-lows
  swingTrend,      \* 1 bullish, -1 bearish, 0 neutral
  internalTrend,
  results,         \* one slot per bar: [key -> number or Undefined]
  pivots,          \* the event list exposed as extendData.pivots
  extendData,      \* indicator.extendData: what the last completed calc exposed
  calls,           \* how many times calc was invoked on the indicator
  previous         \* what the call before this one returned and left behind

vars == <<dataList, swingLength, internalLength, pc, i, swingOs, internalOs,
          swingHighs, swingLows, internalHighs, internalLows,
          swingTrend, internalTrend, results, pivots, extendData, calls, previous>>

n == Len(dataList)

\* dataList[k]
Bar(bars, k) == bars[k + 1]

BreakKeys == {"swingBosBull", "swingBosBear", "swingChochBull", "swingChochBear",
              "internalBosBull", "internalBosBear", "internalChochBull",
              "internalChochBear"}
MarkerKeys == {"swingHighMarker", "swingLowMarker"}
Keys == BreakKeys \cup MarkerKeys

\* results = dataList.map(() => ({}))
EmptyResult == [key \in Keys |-> Undefined]
EmptyResults(len) == [k \in 1..len |-> EmptyResult]

\* results[k][key], with results[k]?. for an index outside the array
Slot(res, k, key) == IF k >= 0 /\ k < Len(res) THEN res[k + 1][key] ELSE Undefined

\* results[k][key] = v
SetSlot(res, k, key, v) == [res EXCEPT ![k + 1][key] = v]

\* ------------------------------------------------------- pivot scan
\* The forward window p+1 .. idx of one scan iteration: the running maximum
\* of the highs and minimum of the lows, folded as the inner for loop does.
\* The window taken from the candidate itself: p .. idx.
RECURSIVE maxHighInclusive(_, _, _)
maxHighInclusive(bars, j, p) ==
  IF j < p THEN NegInfinity
  ELSE LET prev == maxHighInclusive(bars, j - 1, p)
           hj == Number(Bar(bars, j).high)
       IN IF Gt(hj, prev) THEN hj ELSE prev

\* The window cut to its first bar: only bar p+1 is compared.
maxHighNextOnly(bars, j, p) ==
  IF j <= p THEN NegInfinity ELSE Number(Bar(bars, p + 1).high)

\* The window run to the end of the data: every bar after the candidate.
maxHighToEnd(bars, j, p) ==
  LET S == {Number(Bar(bars, q).high) : q \in (p + 1)..(Len(bars) - 1)}
  IN IF j <= p \/ S = {} THEN NegInfinity
     ELSE CHOOSE v \in S : \A w \in S : v >= w

RECURSIVE maxHigh(_, _, _)
maxHigh(bars, j, p) ==
  IF j <= p THEN NegInfinity
  ELSE LET prev == maxHigh(bars, j - 1, p)
           hj == Number(Bar(bars, j).high)
       IN IF Gt(hj, prev) THEN hj ELSE prev

RECURSIVE minLow(_, _, _)
minLow(bars, j, p) ==
  IF j <= p THEN Infinity
  ELSE LET prev == minLow(bars, j - 1, p)
           lj == Number(Bar(bars, j).low)
       IN IF Lt(lj, prev) THEN lj ELSE prev

\* The comparisons taken as >= and <=: a candidate level with its window
\* counts as beyond it.
currOsLoose(os, pivotHigh, pivotLow, mx, mn) ==
  IF ~Lt(pivotHigh, mx) THEN 0
  ELSE IF ~Gt(pivotLow, mn) THEN 1
  ELSE os

\* The two tests in the other order: the low is compared first.
currOsBottomFirst(os, pivotHigh, pivotLow, mx, mn) ==
  IF Lt(pivotLow, mn) THEN 1
  ELSE IF Gt(pivotHigh, mx) THEN 0
  ELSE os

\* currOs of one iteration: 0 when the candidate's high exceeds the window,
\* else 1 when its low undercuts it, else the register's previous value.
currOs(os, pivotHigh, pivotLow, mx, mn) ==
  IF Gt(pivotHigh, mx) THEN 0
  ELSE IF Lt(pivotLow, mn) THEN 1
  ELSE os

\* One iteration of a scan loop with lookback len at index idx and register os.
\* thrown: dataList[j] of the window or dataList[p] is read outside the array
\* (reading .high of undefined is a TypeError, which ends calc).
ScanStep(bars, len, idx, os) ==
  LET p == idx - len IN
  IF p < 0 \/ p >= Len(bars) \/ (p < idx /\ idx >= Len(bars))
    THEN [thrown |-> TRUE, p |-> p, os |-> os, high |-> FALSE, low |-> FALSE,
          pivotHigh |-> NaN, pivotLow |-> NaN]
    ELSE LET pivotHigh == Number(Bar(bars, p).high)
             pivotLow == Number(Bar(bars, p).low)
             c == currOs(os, pivotHigh, pivotLow, maxHigh(bars, idx, p), minLow(bars, idx, p))
         IN [thrown |-> FALSE, p |-> p, os |-> c,
             high |-> (c = 0 /\ os # 0), low |-> (c = 1 /\ os # 1),
             pivotHigh |-> pivotHigh, pivotLow |-> pivotLow]

\* list.push({ index: p, price }) when the scan emits, the list otherwise
PushIf(list, emit, p, price) ==
  IF emit THEN Append(list, [index |-> p, price |-> price]) ELSE list

\* The marker written outside the if: every candidate is marked.
MarkAlways(res, emit, p, key, price) == SetSlot(res, p, key, price)

\* results[p][key] = price when the scan emits a swing pivot
MarkIf(res, emit, p, key, price) ==
  IF emit THEN SetSlot(res, p, key, price) ELSE res

\* ---------------------------------------------------- loop sequencing
\* The swing scan entered with i <= dataList.length.
StartSwingInclusive ==
  IF swingLength <= n THEN <<"scanSwing", swingLength>>
  ELSE IF internalLength < n THEN <<"scanInternal", internalLength>>
  ELSE IF 0 < n THEN <<"swingBull", 0>> ELSE <<"return", 0>>

\* Where calc goes when a loop ends: each loop is skipped when its condition
\* fails on entry.
StartBreak == IF 0 < n THEN <<"swingBull", 0>> ELSE <<"return", 0>>
StartInternal ==
  IF internalLength < n THEN <<"scanInternal", internalLength>> ELSE StartBreak
StartSwing ==
  IF swingLength < n THEN <<"scanSwing", swingLength>> ELSE StartInternal

Goto(target) == pc' = target[1] /\ i' = target[2]

\* --- Swing pivots (offset = swingLength) ---
ScanSwing ==
  /\ pc = "scanSwing"
  /\ LET s == ScanStep(dataList, swingLength, i, swingOs) IN
     IF s.thrown
       THEN /\ pc' = "TypeError"
            /\ UNCHANGED <<i, swingOs, swingHighs, swingLows, results>>
       ELSE /\ swingHighs' = PushIf(swingHighs, s.high, s.p, s.pivotHigh)
            /\ swingLows' = PushIf(swingLows, s.low, s.p, s.pivotLow)
            /\ results' = MarkIf(MarkIf(results, s.high, s.p, "swingHighMarker", s.pivotHigh),
                                 s.low, s.p, "swingLowMarker", s.pivotLow)
            /\ swingOs' = s.os
            /\ Goto(IF i + 1 < n THEN <<"scanSwing", i + 1>> ELSE StartInternal)
  /\ UNCHANGED <<dataList, swingLength, internalLength, internalOs,
                 internalHighs, internalLows, swingTrend, internalTrend, pivots,
                 extendData, calls, previous>>

\* --- Internal pivots (offset = internalLength) ---
ScanInternal ==
  /\ pc = "scanInternal"
  /\ LET s == ScanStep(dataList, internalLength, i, internalOs) IN
     IF s.thrown
       THEN /\ pc' = "TypeError"
            /\ UNCHANGED <<i, internalOs, internalHighs, internalLows>>
       ELSE /\ internalHighs' = PushIf(internalHighs, s.high, s.p, s.pivotHigh)
            /\ internalLows' = PushIf(internalLows, s.low, s.p, s.pivotLow)
            /\ internalOs' = s.os
            /\ Goto(IF i + 1 < n THEN <<"scanInternal", i + 1>> ELSE StartBreak)
  /\ UNCHANGED <<dataList, swingLength, internalLength, swingOs,
                 swingHighs, swingLows, swingTrend, internalTrend, results, pivots,
                 extendData, calls, previous>>

\* ------------------------------------------------------- writeRange
\* The lowest index of the contiguous run of defined values that ends at k,
\* Null when results[k][key] is undefined.
RECURSIVE runStart(_, _, _)
runStart(res, key, k) ==
  IF k >= 0 /\ Slot(res, k, key) # Undefined
    THEN LET below == runStart(res, key, k - 1)
         IN IF below = Null THEN k ELSE below
    ELSE Null

\* The last index of the run of defined values that holds index k.
RECURSIVE runEnd(_, _, _)
runEnd(res, key, k) ==
  IF k + 1 < Len(res) /\ Slot(res, k + 1, key) # Undefined
    THEN runEnd(res, key, k + 1)
    ELSE k

\* The truncation cutting one bar too low: the run is ended at from - 2.
ClearRangeFromBelow(res, key, from, to) ==
  [k \in 1..Len(res) |->
     IF k - 1 >= from - 1 /\ k - 1 <= to THEN [res[k] EXCEPT ![key] = Undefined] ELSE res[k]]

\* delete results[m][key] for m in from..to
ClearRange(res, key, from, to) ==
  [k \in 1..Len(res) |->
     IF k - 1 >= from /\ k - 1 <= to THEN [res[k] EXCEPT ![key] = Undefined] ELSE res[k]]

\* The range written short of its last bar.
FillRangeOpen(res, key, from, to, price) ==
  [k \in 1..Len(res) |->
     IF k - 1 >= from /\ k - 1 < to THEN [res[k] EXCEPT ![key] = price] ELSE res[k]]

\* results[j][key] = price for j in from..to, inside the array
FillRange(res, key, from, to, price) ==
  [k \in 1..Len(res) |->
     IF k - 1 >= from /\ k - 1 <= to THEN [res[k] EXCEPT ![key] = price] ELSE res[k]]

\* Math.max left out: the second argument as it comes.
MaxSecond(a, b) == b

Max(a, b) == IF a >= b THEN a ELSE b

\* First write wins: only the slots still undefined take the new price.
writeRangeKeepOld(res, key, start, end, price) ==
  [k \in 1..Len(res) |->
     IF k - 1 >= start /\ k - 1 <= end /\ res[k][key] = Undefined
       THEN [res[k] EXCEPT ![key] = price] ELSE res[k]]

\* The earlier run deleted whole instead of cut at start.
writeRangeDropRun(res, key, start, end, price) ==
  LET rs == runStart(res, key, Max(0, start - 1))
      dropped ==
        IF rs # Null /\ runEnd(res, key, rs) >= start
          THEN ClearRange(res, key, rs, runEnd(res, key, rs))
          ELSE res
  IN FillRange(dropped, key, start, end, price)

writeRange(res, key, start, end, price) ==
  LET rs == runStart(res, key, Max(0, start - 1))
      truncated ==
        IF rs # Null /\ runEnd(res, key, rs) >= start
          THEN ClearRange(res, key, start, runEnd(res, key, rs))
          ELSE res
  IN FillRange(truncated, key, start, end, price)

\* The record put at the front of the list.
pushPivotFront(list, key, pivotIndex, breakIndex, price, level) ==
  <<[key |-> key, pivotIndex |-> pivotIndex, breakIndex |-> breakIndex,
     price |-> price, level |-> level]>> \o list

\* pivots.push({ key, pivotIndex, breakIndex, price, level })
pushPivot(list, key, pivotIndex, breakIndex, price, level) ==
  Append(list, [key |-> key, pivotIndex |-> pivotIndex, breakIndex |-> breakIndex,
                price |-> price, level |-> level])

\* ------------------------------------------------------- break loop
\* The break taken as reached rather than crossed: >= and <=.
BreaksOrTouches(dir, close, price) ==
  IF dir = "Bull" THEN ~Lt(close, price) ELSE ~Gt(close, price)

\* close > pivot.price / close < pivot.price
Breaks(dir, close, price) ==
  IF dir = "Bull" THEN Gt(close, price) ELSE Lt(close, price)

\* The index test left out: a pivot can be broken at or before its own bar.
RECURSIVE FirstBreakAnyIndex(_, _, _, _, _)
FirstBreakAnyIndex(list, k, idx, close, dir) ==
  IF k > Len(list) THEN 0
  ELSE IF Breaks(dir, close, list[k].price) THEN k
  ELSE FirstBreakAnyIndex(list, k + 1, idx, close, dir)

\* The pivot nearest in price to the close among those the close breaks.
NearestBreak(list, k, idx, close, dir) ==
  LET Q == {m \in k..Len(list) : list[m].index < idx /\ Breaks(dir, close, list[m].price)}
      Nearer(a, b) == IF dir = "Bull" THEN list[a].price >= list[b].price
                                     ELSE list[a].price <= list[b].price
  IN IF Q = {} THEN 0
     ELSE CHOOSE m \in Q : \A m2 \in Q : Nearer(m, m2) /\ (Nearer(m2, m) => m <= m2)

\* The position in list of the pivot the for-of loop stops at: the first one
\* with index < idx that the close breaks; 0 when the loop runs to its end.
RECURSIVE FirstBreak(_, _, _, _, _)
FirstBreak(list, k, idx, close, dir) ==
  IF k > Len(list) THEN 0
  ELSE IF list[k].index < idx /\ Breaks(dir, close, list[k].price) THEN k
  ELSE FirstBreak(list, k + 1, idx, close, dir)

\* A consumed pivot left in the live list.
SpliceKept(list, k) == list

\* splice called without its delete count: the list cut at the pivot.
SpliceToEnd(list, k) == SubSeq(list, 1, k - 1)

\* list.splice(list.indexOf(pivot), 1)
Splice(list, k) == [m \in 1..(Len(list) - 1) |-> IF m < k THEN list[m] ELSE list[m + 1]]

\* A break out of Neutral taken for a reversal.
BullKeyNeutralChoch(level, trend) ==
  IF level = "swing"
    THEN (IF trend # 1 THEN "swingChochBull" ELSE "swingBosBull")
    ELSE (IF trend # 1 THEN "internalChochBull" ELSE "internalBosBull")

\* The bearish classification testing the wrong register value.
BearKeySwapped(level, trend) ==
  IF level = "swing"
    THEN (IF trend = 0 - 1 THEN "swingChochBear" ELSE "swingBosBear")
    ELSE (IF trend = 0 - 1 THEN "internalChochBear" ELSE "internalBosBear")

\* A bearish break out of Neutral taken for a reversal.
BearKeyNeutralChoch(level, trend) ==
  IF level = "swing"
    THEN (IF trend # 0 - 1 THEN "swingChochBear" ELSE "swingBosBear")
    ELSE (IF trend # 0 - 1 THEN "internalChochBear" ELSE "internalBosBear")

\* The internal copy of the bullish classification testing trend !== 1.
BullKeyInternalLoose(level, trend) ==
  IF level = "swing"
    THEN (IF trend = 0 - 1 THEN "swingChochBull" ELSE "swingBosBull")
    ELSE (IF trend # 1 THEN "internalChochBull" ELSE "internalBosBull")

\* The figure key a break is written under.
BullKey(level, trend) ==
  IF level = "swing"
    THEN (IF trend = 0 - 1 THEN "swingChochBull" ELSE "swingBosBull")
    ELSE (IF trend = 0 - 1 THEN "internalChochBull" ELSE "internalBosBull")

BearKey(level, trend) ==
  IF level = "swing"
    THEN (IF trend = 1 THEN "swingChochBear" ELSE "swingBosBear")
    ELSE (IF trend = 1 THEN "internalChochBear" ELSE "internalBosBear")

\* Every break written under the swing keys, whatever its level.
BreakKeyOneLevel(level, dir, trend) ==
  IF dir = "Bull" THEN BullKey("swing", trend) ELSE BearKey("swing", trend)

BreakKey(level, dir, trend) ==
  IF dir = "Bull" THEN BullKey(level, trend) ELSE BearKey(level, trend)

\* Every break taken for a bullish one.
TrendAfterAlwaysBull(dir) == 1

\* A bullish break leaving the register Neutral.
TrendAfterBullNeutral(dir) == IF dir = "Bull" THEN 0 ELSE 0 - 1

TrendAfter(dir) == IF dir = "Bull" THEN 1 ELSE 0 - 1

\* The bearish loop skipped on a bar whose bullish loop of the same level
\* has emitted an event.
CheckOneWay(bars, level, dir, list, trend, res, evs, idx) ==
  LET close == Number(Bar(bars, idx).close)
      k == FirstBreak(list, 1, idx, close, dir)
      skipped == /\ dir = "Bear"
                 /\ evs # <<>>
                 /\ evs[Len(evs)].breakIndex = idx
                 /\ evs[Len(evs)].level = level
  IN IF k = 0 \/ skipped
       THEN [list |-> list, trend |-> trend, results |-> res, pivots |-> evs]
       ELSE LET pivot == list[k]
                key == BreakKey(level, dir, trend)
            IN [list |-> Splice(list, k),
                trend |-> TrendAfter(dir),
                results |-> writeRange(res, key, pivot.index, idx, pivot.price),
                pivots |-> pushPivot(evs, key, pivot.index, idx, pivot.price, level)]

\* The else-if of the swing bearish loop without its "|| swingTrend === 0".
BranchTakenNoNeutral(level, dir, trend) ==
  (level = "swing" /\ dir = "Bear") => trend \in {1, 0 - 1}

\* A break finds a branch that writes and records it: the bullish loops and
\* the internal bearish loop end in a plain else; the swing bearish loop has
\* if (swingTrend === 1) ... else if (swingTrend === -1 || swingTrend === 0)
\* and nothing for another value.
BranchTaken(level, dir, trend) ==
  (level = "swing" /\ dir = "Bear") => trend \in {1, 0 - 1, 0}

\* One of the four for-of loops of bar idx: the live list, the trend register,
\* results and pivots after it. The splice and the break follow the branches,
\* so the pivot is removed whether or not one of them ran.
Check(bars, level, dir, list, trend, res, evs, idx) ==
  LET close == Number(Bar(bars, idx).close)
      k == FirstBreak(list, 1, idx, close, dir)
  IN IF k = 0
       THEN [list |-> list, trend |-> trend, results |-> res, pivots |-> evs]
       ELSE IF ~BranchTaken(level, dir, trend)
         THEN [list |-> Splice(list, k), trend |-> trend, results |-> res,
               pivots |-> evs]
       ELSE LET pivot == list[k]
                key == BreakKey(level, dir, trend)
            IN [list |-> Splice(list, k),
                trend |-> TrendAfter(dir),
                results |-> writeRange(res, key, pivot.index, idx, pivot.price),
                pivots |-> pushPivot(evs, key, pivot.index, idx, pivot.price, level)]

\* ===== CHECK FOR BULLISH SWING BREAKS =====
SwingBull ==
  /\ pc = "swingBull"
  /\ LET c == Check(dataList, "swing", "Bull", swingHighs, swingTrend, results, pivots, i) IN
       /\ swingHighs' = c.list
       /\ swingTrend' = c.trend
       /\ results' = c.results
       /\ pivots' = c.pivots
  /\ pc' = "swingBear"
  /\ UNCHANGED <<dataList, swingLength, internalLength, i, swingOs, internalOs,
                 swingLows, internalHighs, internalLows, internalTrend,
                 extendData, calls, previous>>

\* ===== CHECK FOR BEARISH SWING BREAKS =====
SwingBear ==
  /\ pc = "swingBear"
  /\ LET c == Check(dataList, "swing", "Bear", swingLows, swingTrend, results, pivots, i) IN
       /\ swingLows' = c.list
       /\ swingTrend' = c.trend
       /\ results' = c.results
       /\ pivots' = c.pivots
  /\ pc' = "internalBull"
  /\ UNCHANGED <<dataList, swingLength, internalLength, i, swingOs, internalOs,
                 swingHighs, internalHighs, internalLows, internalTrend,
                 extendData, calls, previous>>

\* ===== CHECK FOR BULLISH INTERNAL BREAKS =====
InternalBull ==
  /\ pc = "internalBull"
  /\ LET c == Check(dataList, "internal", "Bull", internalHighs, internalTrend, results, pivots, i) IN
       /\ internalHighs' = c.list
       /\ internalTrend' = c.trend
       /\ results' = c.results
       /\ pivots' = c.pivots
  /\ pc' = "internalBear"
  /\ UNCHANGED <<dataList, swingLength, internalLength, i, swingOs, internalOs,
                 swingHighs, swingLows, internalLows, swingTrend,
                 extendData, calls, previous>>

\* ===== CHECK FOR BEARISH INTERNAL BREAKS =====
InternalBear ==
  /\ pc = "internalBear"
  /\ LET c == Check(dataList, "internal", "Bear", internalLows, internalTrend, results, pivots, i) IN
       /\ internalLows' = c.list
       /\ internalTrend' = c.trend
       /\ results' = c.results
       /\ pivots' = c.pivots
  /\ Goto(IF i + 1 < n THEN <<"swingBull", i + 1>> ELSE <<"return", 0>>)
  /\ UNCHANGED <<dataList, swingLength, internalLength, swingOs, internalOs,
                 swingHighs, swingLows, internalHighs, swingTrend,
                 extendData, calls, previous>>

\* ;(indicator as { extendData?: unknown }).extendData = { pivots }
\* return results
Return ==
  /\ pc = "return"
  /\ extendData' = [pivots |-> pivots]
  /\ pc' = "done"
  /\ UNCHANGED <<dataList, swingLength, internalLength, i, swingOs, internalOs,
                 swingHighs, swingLows, internalHighs, internalLows,
                 swingTrend, internalTrend, results, pivots, calls, previous>>

\* ------------------------------------------------------------ inputs
\* A candle: low <= close <= high, at most MaxSpread between low and high.
BarSet ==
  {b \in [high : Prices, low : Prices, close : Prices] :
     b.low <= b.close /\ b.close <= b.high /\ b.high - b.low <= MaxSpread}

BarSeqs(S, maxLen) == UNION {[1..len -> S] : len \in 0..maxLen}

Lengths == 1..MaxLen

\* The state calc builds before its first loop, the first time it is invoked
\* on an indicator: nothing was exposed yet.
Setup(bars, sl, il) ==
  /\ dataList = bars
  /\ swingLength = sl
  /\ internalLength = il
  /\ swingOs = Null
  /\ internalOs = Null
  /\ swingHighs = <<>>
  /\ swingLows = <<>>
  /\ internalHighs = <<>>
  /\ internalLows = <<>>
  /\ swingTrend = 0
  /\ internalTrend = 0
  /\ results = EmptyResults(Len(bars))
  /\ pivots = <<>>
  /\ extendData = Undefined
  /\ calls = 1
  /\ previous = Undefined

Init ==
  \E bars \in BarSeqs(BarSet, MaxBars), sl \in Lengths, il \in Lengths :
    /\ Setup(bars, sl, il)
    /\ pc = StartSwing[1]
    /\ i = StartSwing[2]

Next ==
  \/ ScanSwing
  \/ ScanInternal
  \/ SwingBull
  \/ SwingBear
  \/ InternalBull
  \/ InternalBear
  \/ Return

Spec == Init /\ [][Next]_vars

\* Bars whose high, low and close coincide, over longer sequences.
MaxFlatBars == 5
FlatBarSet == {b \in [high : Prices, low : Prices, close : Prices] :
                 b.high = b.low /\ b.low = b.close}

InitFlat ==
  \E bars \in BarSeqs(FlatBarSet, MaxFlatBars), sl \in Lengths, il \in Lengths :
    /\ Setup(bars, sl, il)
    /\ pc = StartSwing[1]
    /\ i = StartSwing[2]

SpecFlat == InitFlat /\ [][Next]_vars

\* ------------------------------------------- whole runs of one level
\* The scan loop of one level run from its first index to idx: the toggle
\* register and the pivots pushed so far.
RECURSIVE ScanRun(_, _, _)
ScanRun(bars, len, idx) ==
  IF idx < len THEN [os |-> Null, highs |-> <<>>, lows |-> <<>>]
  ELSE LET prev == ScanRun(bars, len, idx - 1)
           s == ScanStep(bars, len, idx, prev.os)
       IN [os |-> s.os,
           highs |-> PushIf(prev.highs, s.high, s.p, s.pivotHigh),
           lows |-> PushIf(prev.lows, s.low, s.p, s.pivotLow)]

\* The pivots one level's scan detects on bars with lookback len > 0.
Pivots(bars, len) == ScanRun(bars, len, Len(bars) - 1)

\* The break loop of one level run on bars 0 .. idx, from the live lists highs
\* and lows: the bullish check, then the bearish check, of each bar.
RECURSIVE BreakRun(_, _, _, _, _)
BreakRun(bars, level, highs, lows, idx) ==
  IF idx < 0
    THEN [highs |-> highs, lows |-> lows, trend |-> 0,
          results |-> EmptyResults(Len(bars)), pivots |-> <<>>]
    ELSE LET prev == BreakRun(bars, level, highs, lows, idx - 1)
             b == Check(bars, level, "Bull", prev.highs, prev.trend,
                        prev.results, prev.pivots, idx)
             c == Check(bars, level, "Bear", prev.lows, b.trend,
                        b.results, b.pivots, idx)
         IN [highs |-> b.list, lows |-> c.list, trend |-> c.trend,
             results |-> c.results, pivots |-> c.pivots]

\* The events one level emits on bars with lookback len > 0.
LevelEvents(bars, level, len) ==
  BreakRun(bars, level, Pivots(bars, len).highs, Pivots(bars, len).lows,
           Len(bars) - 1).pivots

\* ------------------------------------------- symmetric-window calc
\* a >= b on bar fields: false as soon as one side is not a number.
Ge(a, b) == Number(a) # NaN /\ Number(b) # NaN /\ a >= b
Le(a, b) == Number(a) # NaN /\ Number(b) # NaN /\ a <= b

\* The window loop stepping by len: only its two ends are compared.
isHighEndsOnly(bars, len, idx) ==
  /\ idx >= len
  /\ idx < Len(bars) - len
  /\ \A j \in {idx - len, idx + len} :
       j # idx => ~Ge(Bar(bars, j).high, Bar(bars, idx).high)

\* The window compared with >: a bar level with a neighbour still passes.
isHighTies(bars, len, idx) ==
  /\ idx >= len
  /\ idx < Len(bars) - len
  /\ \A j \in (idx - len)..(idx + len) :
       j # idx => ~Gt(Number(Bar(bars, j).high), Number(Bar(bars, idx).high))

\* isSwingHigh / isInternalHigh of bar idx with lookback len
isHigh(bars, len, idx) ==
  /\ idx >= len
  /\ idx < Len(bars) - len
  /\ \A j \in (idx - len)..(idx + len) :
       j # idx => ~Ge(Bar(bars, j).high, Bar(bars, idx).high)

\* isSwingLow / isInternalLow of bar idx with lookback len
isLow(bars, len, idx) ==
  /\ idx >= len
  /\ idx < Len(bars) - len
  /\ \A j \in (idx - len)..(idx + len) :
       j # idx => ~Le(Bar(bars, j).low, Bar(bars, idx).low)

StartSym == IF 0 < n THEN <<"symDetect", 0>> ELSE <<"symDone", 0>>

\* === STEP 1: Detect all pivot points === (one bar of the loop)
SymDetect ==
  /\ pc = "symDetect"
  /\ LET high == Bar(dataList, i).high
         low == Bar(dataList, i).low
         isSwingHigh == isHigh(dataList, swingLength, i)
         isSwingLow == isLow(dataList, swingLength, i)
     IN /\ swingHighs' = PushIf(swingHighs, isSwingHigh, i, high)
        /\ swingLows' = PushIf(swingLows, isSwingLow, i, low)
        /\ results' = MarkIf(MarkIf(results, isSwingHigh, i, "swingHighMarker", high),
                             isSwingLow, i, "swingLowMarker", low)
        /\ internalHighs' = PushIf(internalHighs, isHigh(dataList, internalLength, i), i, high)
        /\ internalLows' = PushIf(internalLows, isLow(dataList, internalLength, i), i, low)
  /\ Goto(IF i + 1 < n THEN <<"symDetect", i + 1>> ELSE <<"symSwingBull", 0>>)
  /\ UNCHANGED <<dataList, swingLength, internalLength, swingOs, internalOs,
                 swingTrend, internalTrend, pivots,
                 extendData, calls, previous>>

\* One of the four for-of loops of bar idx: the range pivot.index .. idx is
\* overwritten in place, and no event record is kept.
SymCheck(bars, level, dir, list, trend, res, idx) ==
  LET close == Bar(bars, idx).close
      k == FirstBreak(list, 1, idx, Number(close), dir)
  IN IF k = 0
       THEN [list |-> list, trend |-> trend, results |-> res]
       ELSE [list |-> Splice(list, k),
             trend |-> TrendAfter(dir),
             results |-> FillRange(res, BreakKey(level, dir, trend),
                                   list[k].index, idx, list[k].price)]

SymSwingBull ==
  /\ pc = "symSwingBull"
  /\ LET c == SymCheck(dataList, "swing", "Bull", swingHighs, swingTrend, results, i) IN
       /\ swingHighs' = c.list
       /\ swingTrend' = c.trend
       /\ results' = c.results
  /\ pc' = "symSwingBear"
  /\ UNCHANGED <<dataList, swingLength, internalLength, i, swingOs, internalOs,
                 swingLows, internalHighs, internalLows, internalTrend, pivots,
                 extendData, calls, previous>>

SymSwingBear ==
  /\ pc = "symSwingBear"
  /\ LET c == SymCheck(dataList, "swing", "Bear", swingLows, swingTrend, results, i) IN
       /\ swingLows' = c.list
       /\ swingTrend' = c.trend
       /\ results' = c.results
  /\ pc' = "symInternalBull"
  /\ UNCHANGED <<dataList, swingLength, internalLength, i, swingOs, internalOs,
                 swingHighs, internalHighs, internalLows, internalTrend, pivots,
                 extendData, calls, previous>>

SymInternalBull ==
  /\ pc = "symInternalBull"
  /\ LET c == SymCheck(dataList, "internal", "Bull", internalHighs, internalTrend, results, i) IN
       /\ internalHighs' = c.list
       /\ internalTrend' = c.trend
       /\ results' = c.results
  /\ pc' = "symInternalBear"
  /\ UNCHANGED <<dataList, swingLength, internalLength, i, swingOs, internalOs,
                 swingHighs, swingLows, internalLows, swingTrend, pivots,
                 extendData, calls, previous>>

SymInternalBear ==
  /\ pc = "symInternalBear"
  /\ LET c == SymCheck(dataList, "internal", "Bear", internalLows, internalTrend, results, i) IN
       /\ internalLows' = c.list
       /\ internalTrend' = c.trend
       /\ results' = c.results
  /\ Goto(IF i + 1 < n THEN <<"symSwingBull", i + 1>> ELSE <<"symDone", 0>>)
  /\ UNCHANGED <<dataList, swingLength, internalLength, swingOs, internalOs,
                 swingHighs, swingLows, internalHighs, swingTrend, pivots,
                 extendData, calls, previous>>

InitSym ==
  \E bars \in BarSeqs(BarSet, MaxBars), sl \in Lengths, il \in Lengths :
    /\ Setup(bars, sl, il)
    /\ pc = StartSym[1]
    /\ i = StartSym[2]

NextSym ==
  \/ SymDetect
  \/ SymSwingBull
  \/ SymSwingBear
  \/ SymInternalBull
  \/ SymInternalBear

SpecSym == InitSym /\ [][NextSym]_vars

\* Either implementation, on the same inputs.
InitBoth == Init \/ InitSym
NextBoth == Next \/ NextSym
SpecBoth == InitBoth /\ [][NextBoth]_vars

\* ----------------------------------------------------- other inputs
\* Candles of any spread that close at their high, over longer sequences.
MaxWideBars == 5
MaxWidePrice == 3
WideBarSet == {b \in [high : 1..MaxWidePrice, low : 1..MaxWidePrice,
                      close : 1..MaxWidePrice] :
                 b.low <= b.high /\ b.close = b.high}

InitWide ==
  \E bars \in BarSeqs(WideBarSet, MaxWideBars), sl \in Lengths, il \in Lengths :
    /\ Setup(bars, sl, il)
    /\ \/ pc = StartSwing[1] /\ i = StartSwing[2]
       \/ pc = StartSym[1] /\ i = StartSym[2]

SpecWide == InitWide /\ [][NextBoth]_vars

\* calcParams that are not positive: nothing in calc checks them.
ConfigLengths == (0 - MaxLen)..MaxLen

InitConfig ==
  \E bars \in BarSeqs(FlatBarSet, MaxBars), sl \in ConfigLengths, il \in ConfigLengths :
    /\ Setup(bars, sl, il)
    /\ pc = StartSwing[1]
    /\ i = StartSwing[2]

SpecConfig == InitConfig /\ [][Next]_vars

\* Bars with a missing or non-numeric high, low or close.
MaxDataBars == 2
DataBarSet == [high : Prices \cup {Undefined}, low : Prices \cup {Undefined},
               close : Prices \cup {Undefined}]

InitData ==
  \E bars \in BarSeqs(DataBarSet, MaxDataBars), sl \in Lengths, il \in Lengths :
    /\ Setup(bars, sl, il)
    /\ pc = StartSwing[1]
    /\ i = StartSwing[2]

SpecData == InitData /\ [][Next]_vars

\* ------------------------------------------------------------ events
Levels == {"swing", "internal"}

BullKeys == {"swingBosBull", "swingChochBull", "internalBosBull", "internalChochBull"}
ChochKeys == {"swingChochBull", "swingChochBear", "internalChochBull", "internalChochBear"}

Direction(e) == IF e.key \in BullKeys THEN "Bull" ELSE "Bear"
Classification(e) == IF e.key \in ChochKeys THEN "CHoCH" ELSE "BOS"

Trend(level) == IF level = "swing" THEN swingTrend ELSE internalTrend
Highs(level) == IF level = "swing" THEN swingHighs ELSE internalHighs
Lows(level) == IF level = "swing" THEN swingLows ELSE internalLows

Events == {pivots[a] : a \in 1..Len(pivots)}
EventsOf(level) == {e \in Events : e.level = level}

Close(k) == Number(Bar(dataList, k).close)

\* ------------------------------------------------------------ C1
\* C1: every step that emits a break event classifies it from the level's
\* trend register before the step: a bullish event is CHoCH exactly when the
\* register was Bearish, a bearish event is CHoCH exactly when it was
\* Bullish, and every other event is BOS.
C1_StepClassifies ==
  Len(pivots') # Len(pivots) =>
    /\ Len(pivots') = Len(pivots) + 1
    /\ LET e == pivots'[Len(pivots')] IN
         /\ Direction(e) = "Bull" =>
              (Classification(e) = "CHoCH" <=> Trend(e.level) = 0 - 1)
         /\ Direction(e) = "Bear" =>
              (Classification(e) = "CHoCH" <=> Trend(e.level) = 1)

C1_Classification == [][C1_StepClassifies]_vars

\* A level has emitted a continuation and then a bullish reversal.
C1_Witness ==
  \E e, f \in Events :
    /\ e.level = f.level
    /\ Classification(e) = "BOS"
    /\ Classification(f) = "CHoCH"
    /\ Direction(f) = "Bull"

\* ------------------------------------------------------------ C2
\* C2: every event has pivotIndex < breakIndex, no two events share the pivot
\* (level, kind, index), and a pivot that an event consumed is no longer in
\* the live list of its level and kind.
SamePivot(a, b) ==
  a.level = b.level /\ Direction(a) = Direction(b) /\ a.pivotIndex = b.pivotIndex

Live(level, dir) == IF dir = "Bull" THEN Highs(level) ELSE Lows(level)

C2_PivotConsumedOnce ==
  /\ \A a \in 1..Len(pivots) :
       /\ pivots[a].pivotIndex < pivots[a].breakIndex
       /\ \A b \in 1..Len(pivots) : SamePivot(pivots[a], pivots[b]) => a = b
  /\ \A e \in Events :
       \A k \in 1..Len(Live(e.level, Direction(e))) :
         Live(e.level, Direction(e))[k].index # e.pivotIndex

\* A pivot-high was consumed and a later bar, already processed, closes above
\* its price again.
C2_Witness ==
  /\ pc = "done"
  /\ \E e \in Events :
       /\ Direction(e) = "Bull"
       /\ \E k \in (e.breakIndex + 1)..(n - 1) : Close(k) > e.price

\* ------------------------------------------------------------ C3
\* C3: a level's trend register is Neutral until the level's first event; a
\* step that emits no event for the level leaves the register unchanged, and
\* a step that emits one leaves it equal to the event's direction.
NewEvents == {pivots'[a] : a \in (Len(pivots) + 1)..Len(pivots')}

C3_StepFrame ==
  \A level \in Levels :
    /\ EventsOf(level) = {} => Trend(level) = 0
    /\ (\A e \in NewEvents : e.level # level) => Trend(level)' = Trend(level)
    /\ \A e \in NewEvents :
         e.level = level =>
           Trend(level)' = (IF Direction(e) = "Bull" THEN 1 ELSE 0 - 1)

C3_TrendFrame == [][C3_StepFrame]_vars

\* Both registers have left Neutral, in opposite directions.
C3_Witness ==
  /\ swingTrend = 0 - 1
  /\ internalTrend = 1
  /\ EventsOf("swing") # {}
  /\ EventsOf("internal") # {}

\* ------------------------------------------------------------ C4
\* C4: when the bearish check of bar i runs with the level's register Bullish
\* and a live pivot-low of index < i priced above close[i], the check emits
\* exactly one event, a bearish CHoCH of that level at bar i, and the
\* register is Bearish after it and for the rest of bar i.
BearPc(level) == IF level = "swing" THEN "swingBear" ELSE "internalBear"
ChochBear(level) == IF level = "swing" THEN "swingChochBear" ELSE "internalChochBear"

Reversal(level) ==
  /\ pc = BearPc(level)
  /\ Trend(level) = 1
  /\ \E k \in 1..Len(Lows(level)) :
       Lows(level)[k].index < i /\ Lows(level)[k].price > Close(i)

C4_StepReversal ==
  /\ \A level \in Levels :
       Reversal(level) =>
         /\ Len(pivots') = Len(pivots) + 1
         /\ pivots'[Len(pivots')].key = ChochBear(level)
         /\ pivots'[Len(pivots')].breakIndex = i
         /\ Trend(level)' = 0 - 1
  /\ pc \in {"internalBull", "internalBear"} => swingTrend' = swingTrend

C4_Reversal == [][C4_StepReversal]_vars

\* The bearish check has just reversed an established Bullish swing trend.
C4_Witness ==
  /\ pc = "internalBull"
  /\ Len(pivots) >= 2
  /\ pivots[Len(pivots)].key = "swingChochBear"
  /\ pivots[Len(pivots)].breakIndex = i
  /\ swingTrend = 0 - 1

\* ------------------------------------------------------------ C5
\* C5: after calc, on every break channel, each bar index covered by the
\* range of an event on that channel holds the price of the last such event
\* in writing order.
Covering(key, j) ==
  {a \in 1..Len(pivots) :
     pivots[a].key = key /\ pivots[a].pivotIndex <= j /\ j <= pivots[a].breakIndex}

Last(S) == CHOOSE a \in S : \A b \in S : b <= a

C5_LastWriteWins ==
  pc = "done" =>
    \A key \in BreakKeys, j \in 0..(n - 1) :
      Covering(key, j) # {} =>
        Slot(results, j, key) = pivots[Last(Covering(key, j))].price

\* Two events of one channel, with different prices, cover the same bar.
C5_Witness ==
  /\ pc = "done"
  /\ \E key \in BreakKeys, j \in 0..(n - 1) :
       \E a, b \in Covering(key, j) : pivots[a].price # pivots[b].price

\* ------------------------------------------------------------ C6
LengthOf(level) == IF level = "swing" THEN swingLength ELSE internalLength

\* The first m bars of the sequence calc was given.
Prefix(m) == SubSeq(dataList, 1, m)

\* The pivots of list with index <= bound, and the events of list with
\* breakIndex <= bound, in order.
PivotsUpTo(list, bound) ==
  LET Keep(pv) == pv.index <= bound IN SelectSeq(list, Keep)
EventsUpTo(list, level, bound) ==
  LET Keep(e) == e.level = level /\ e.breakIndex <= bound IN SelectSeq(list, Keep)

\* The step-by-step run and the whole-run operators describe the same calc:
\* the live lists at the end of the scans, and the events at the end.
RunsAgree ==
  /\ pc = "swingBull" /\ i = 0 =>
       \A level \in Levels :
         /\ Highs(level) = Pivots(dataList, LengthOf(level)).highs
         /\ Lows(level) = Pivots(dataList, LengthOf(level)).lows
  /\ pc = "done" =>
       \A level \in Levels :
         EventsUpTo(pivots, level, n) = LevelEvents(dataList, level, LengthOf(level))

ScansDone == pc = "swingBull" /\ i = 0

\* The pivots and events of the run on the first m bars agree with those of
\* the run on the whole sequence, up to pivot index pb and break index eb.
SameUpTo(m, level, pb, eb) ==
  LET len == LengthOf(level)
      old == Pivots(Prefix(m), len)
  IN /\ ScansDone =>
          /\ PivotsUpTo(old.highs, pb) = PivotsUpTo(Highs(level), pb)
          /\ PivotsUpTo(old.lows, pb) = PivotsUpTo(Lows(level), pb)
     /\ pc = "done" =>
          EventsUpTo(LevelEvents(Prefix(m), level, len), level, eb)
            = EventsUpTo(pivots, level, eb)

\* C6 as claimed: the run on n_old bars and the run on any extension have the
\* same pivots with index <= n_old - L and the same events with
\* breakIndex <= n_old - L.
C6_StableUpToHorizon ==
  \A m \in 0..n, level \in Levels :
    SameUpTo(m, level, m - LengthOf(level), m - LengthOf(level))

\* C6 (amended): the run on n_old bars and the run on any extension have the
\* same pivots with index < n_old - L and the same events with
\* breakIndex <= n_old - L.
C6_StableBelowHorizon ==
  \A m \in 0..n, level \in Levels :
    SameUpTo(m, level, m - LengthOf(level) - 1, m - LengthOf(level))

\* The swing run on a proper prefix already holds a pivot and an event that
\* the extension keeps, and the extension adds an event of its own.
C6_Witness ==
  /\ pc = "done"
  /\ \E m \in 0..(n - 1) :
       /\ PivotsUpTo(Pivots(Prefix(m), swingLength).highs, m - swingLength - 1) # <<>>
       /\ EventsUpTo(pivots, "swing", m - swingLength) # <<>>
       /\ Len(EventsUpTo(pivots, "swing", n)) > Len(LevelEvents(Prefix(m), "swing", swingLength))

\* ------------------------------------------------------------ C7
\* The number of pivots the offset-confirmation scan detects with lookback len.
PivotCount(bars, len) == Len(Pivots(bars, len).highs) + Len(Pivots(bars, len).lows)

\* The bars the symmetric-window detection records as pivots with lookback len.
SymHighs(bars, len) == {k \in 0..(Len(bars) - 1) : isHigh(bars, len, k)}
SymLows(bars, len) == {k \in 0..(Len(bars) - 1) : isLow(bars, len, k)}
SymPivotCount(bars, len) ==
  Cardinality(SymHighs(bars, len)) + Cardinality(SymLows(bars, len))

LiveCount(level) == Len(Highs(level)) + Len(Lows(level))

SymDetected == pc = "symSwingBull" /\ i = 0

NoOutput ==
  /\ swingHighs = <<>> /\ swingLows = <<>>
  /\ internalHighs = <<>> /\ internalLows = <<>>
  /\ pivots = <<>>
  /\ results = EmptyResults(n)

\* C8: with a lookback that is not positive calc is rejected before any scan:
\* it produces no pivot, no event and no channel value, and never completes.
C8_NonPositiveRejected ==
  (swingLength <= 0 \/ internalLength <= 0) => (NoOutput /\ pc # "done")

\* ------------------------------------------------------------ C9
Invalid(b) == b.high = Undefined \/ b.low = Undefined \/ b.close = Undefined

\* C9: with a bar whose high, low or close is missing or not a number calc is
\* rejected: it produces no pivot, no event and no channel value, and never
\* completes.
C9_InvalidBarRejected ==
  (\E k \in 1..n : Invalid(dataList[k])) => (NoOutput /\ pc # "done")

\* ------------------------------------------------------------ C10
LevelKeys(level) ==
  IF level = "swing"
    THEN {"swingBosBull", "swingBosBear", "swingChochBull", "swingChochBear",
          "swingHighMarker", "swingLowMarker"}
    ELSE {"internalBosBull", "internalBosBear", "internalChochBull",
          "internalChochBear"}

SymPcs == {"symDetect", "symSwingBull", "symSwingBear", "symInternalBull",
           "symInternalBear", "symDone"}

\* The longest sequence on which a level with lookback len can have no pivot.
TooShort(level) ==
  IF pc \in SymPcs THEN n <= 2 * LengthOf(level) ELSE n <= LengthOf(level)

\* C10: on a sequence of at most L bars (offset-confirmation calc) or at most
\* 2L bars (symmetric-window calc) a level with lookback L > 0 raises no error
\* and has no pivot, no event and no channel value on any bar.
C10_ShortInput ==
  \A level \in Levels :
    (LengthOf(level) > 0 /\ TooShort(level)) =>
      /\ pc # "TypeError"
      /\ Highs(level) = <<>>
      /\ Lows(level) = <<>>
      /\ Trend(level) = 0
      /\ EventsOf(level) = {}
      /\ \A k \in 0..(n - 1), key \in LevelKeys(level) : Slot(results, k, key) = Undefined

\* The offset-confirmation calc has completed on exactly swingLength bars,
\* where the internal level, with its shorter lookback, found a pivot.
C10_Witness ==
  /\ pc = "done"
  /\ n > 0
  /\ n = swingLength
  /\ LiveCount("internal") > 0

\* ------------------------------------------------------------ C11
MaxCalls == 2

\* What a completed call returned and left behind.
Outcome ==
  [results |-> results, pivots |-> pivots, extendData |-> extendData,
   swingHighs |-> swingHighs, swingLows |-> swingLows,
   internalHighs |-> internalHighs, internalLows |-> internalLows,
   swingTrend |-> swingTrend, internalTrend |-> internalTrend,
   swingOs |-> swingOs, internalOs |-> internalOs]

\* The event list picked up from what the call before exposed.
PivotsResumed == extendData.pivots

\* const pivots = []
NewPivots == <<>>

\* calc invoked again on the same indicator with the same dataList and
\* calcParams: every local is declared afresh, extendData is what the call
\* before left.
Invoke ==
  /\ pc = "done"
  /\ calls < MaxCalls
  /\ calls' = calls + 1
  /\ previous' = Outcome
  /\ swingOs' = Null
  /\ internalOs' = Null
  /\ swingHighs' = <<>>
  /\ swingLows' = <<>>
  /\ internalHighs' = <<>>
  /\ internalLows' = <<>>
  /\ swingTrend' = 0
  /\ internalTrend' = 0
  /\ results' = EmptyResults(n)
  /\ pivots' = NewPivots
  /\ Goto(StartSwing)
  /\ UNCHANGED <<dataList, swingLength, internalLength, extendData>>

NextAgain ==
  \/ Next
  \/ Invoke

SpecAgain == Init /\ [][NextAgain]_vars

\* C11: a call of calc on the bars and lookbacks of the call before it ends
\* with the same pivot lists, the same event list, the same exposed
\* extendData and the same per-bar channel maps as that call.
C11_Idempotent ==
  (calls > 1 /\ pc = "done") => Outcome = previous

\* The second call has completed after a first call that left events, both
\* trend registers off Neutral and live pivots behind.
C11_Witness ==
  /\ calls = 2
  /\ pc = "done"
  /\ swingTrend # 0
  /\ internalTrend # 0
  /\ LiveCount("swing") + LiveCount("internal") > 0
  /\ Len(previous.pivots) >= 2

\* ------------------------------------------------------------ C12
\* One level run on its own: its scan, then the break loop over its pivots
\* only, with a trend register, an event list and channels of its own.
Alone(bars, level, len) ==
  BreakRun(bars, level, Pivots(bars, len).highs, Pivots(bars, len).lows, Len(bars) - 1)

LevelBreakKeys(level) == LevelKeys(level) \cap BreakKeys

\* C12: what calc ends with for a level (live pivots, events, trend register,
\* channels) is what that level yields when run on its own on the same bars
\* with its own lookback, so it is the same whatever the other level's
\* lookback is and whatever the other level does.
C12_LevelsApart ==
  pc = "done" =>
    \A level \in Levels :
      LET alone == Alone(dataList, level, LengthOf(level)) IN
        /\ Highs(level) = alone.highs
        /\ Lows(level) = alone.lows
        /\ Trend(level) = alone.trend
        /\ EventsUpTo(pivots, level, n) = alone.pivots
        /\ \A k \in 0..(n - 1), key \in LevelBreakKeys(level) :
             Slot(results, k, key) = Slot(alone.results, k, key)

\* Both levels, with different lookbacks, have emitted events of different
\* directions whose ranges share a bar.
C12_Witness ==
  /\ pc = "done"
  /\ swingLength # internalLength
  /\ swingTrend # internalTrend
  /\ \E e \in EventsOf("swing"), f \in EventsOf("internal") :
       /\ Direction(e) # Direction(f)
       /\ e.pivotIndex <= f.breakIndex
       /\ f.pivotIndex <= e.breakIndex

\* ------------------------------------------------------------ C13
\* A sequence of well-formed candles on which one bar (the last) breaks a
\* live pivot-high and a live pivot-low of the same level: short sequences
\* cannot do it, since a pivot-low priced above a pivot-high needs the bars
\* in between to have left both unbroken.
TwoWayBars ==
  <<[high |-> 2, low |-> 1, close |-> 1], [high |-> 1, low |-> 1, close |-> 1],
    [high |-> 2, low |-> 2, close |-> 2], [high |-> 1, low |-> 1, close |-> 1],
    [high |-> 2, low |-> 2, close |-> 2], [high |-> 1, low |-> 1, close |-> 1],
    [high |-> 5, low |-> 1, close |-> 1], [high |-> 4, low |-> 4, close |-> 4],
    [high |-> 5, low |-> 5, close |-> 5], [high |-> 3, low |-> 1, close |-> 3]>>

\* The short candle sequences, and the sequence above with each of its
\* prefixes.
InitOrder ==
  \E bars \in BarSeqs(BarSet, MaxBars)
              \cup {SubSeq(TwoWayBars, 1, m) : m \in 0..Len(TwoWayBars)},
     sl \in Lengths, il \in Lengths :
    /\ Setup(bars, sl, il)
    /\ pc = StartSwing[1]
    /\ i = StartSwing[2]

SpecOrder == InitOrder /\ [][Next]_vars

\* C13: the event list is in non-decreasing breakIndex order, and two events
\* of one level with the same breakIndex are a bullish one followed by a
\* bearish one.
C13_EventOrder ==
  \A a, b \in 1..Len(pivots) :
    a < b =>
      /\ pivots[a].breakIndex <= pivots[b].breakIndex
      /\ (pivots[a].level = pivots[b].level /\ pivots[a].breakIndex = pivots[b].breakIndex) =>
           (Direction(pivots[a]) = "Bull" /\ Direction(pivots[b]) = "Bear")

\* One bar has emitted a bullish and a bearish event of the same level, next
\* to events of the other level.
C13_Witness ==
  \E a, b, c \in 1..Len(pivots) :
    /\ pivots[a].level = pivots[b].level
    /\ pivots[a].breakIndex = pivots[b].breakIndex
    /\ a # b
    /\ pivots[c].level # pivots[a].level

\* ------------------------------------------------------------ C14
\* The highs of bars 0..8 of the worked example; each bar closes at its high.
ScenarioHighs == <<1, 2, 5, 3, 2, 1, 2, 6, 3>>

\* The example's bars for one choice of lows.
ScenarioBars(lows) ==
  [k \in 1..Len(ScenarioHighs) |->
     [high |-> ScenarioHighs[k], low |-> lows[k], close |-> ScenarioHighs[k]]]

\* Every choice of lows for the first k bars that do not exceed the highs.
RECURSIVE LowsUpTo(_)
LowsUpTo(k) ==
  IF k = 0 THEN {<<>>}
  ELSE {Append(lows, l) : lows \in LowsUpTo(k - 1), l \in 1..ScenarioHighs[k]}

ScenarioLows == LowsUpTo(Len(ScenarioHighs))

InitScenario ==
  \E lows \in ScenarioLows, sl \in Lengths, il \in Lengths :
    /\ Setup(ScenarioBars(lows), sl, il)
    /\ pc = StartSwing[1]
    /\ i = StartSwing[2]

SpecScenario == InitScenario /\ [][Next]_vars

BosBull(level) == IF level = "swing" THEN "swingBosBull" ELSE "internalBosBull"

\* The event the example expects of a level.
ScenarioEvent(level) ==
  [key |-> BosBull(level), pivotIndex |-> 2, breakIndex |-> 7, price |-> 5,
   level |-> level]

\* C14: on the example's bars a level with lookback 2 detects the pivot-high
\* of price 5 at index 2, emits no event before bar 7, and at bar 7 emits the
\* bullish BOS with pivotIndex 2, breakIndex 7 and price 5.
C14_Scenario ==
  \A level \in Levels :
    LengthOf(level) = 2 =>
      /\ ScansDone => \E k \in 1..Len(Highs(level)) :
                        Highs(level)[k] = [index |-> 2, price |-> 5]
      /\ \A e \in EventsOf(level) : e.breakIndex >= 7
      /\ \A e \in EventsOf(level) :
           (e.breakIndex = 7 /\ Direction(e) = "Bull") => e = ScenarioEvent(level)
      /\ pc = "done" => ScenarioEvent(level) \in Events

\* The example has run to its end with lookback 2 at the swing level, on lows
\* that gave the level a pivot-low as well.
C14_Witness ==
  /\ pc = "done"
  /\ swingLength = 2
  /\ internalLength = 1
  /\ ScenarioEvent("swing") \in Events
  /\ Slot(results, 2, "swingHighMarker") = 5
  /\ \E k \in 0..(n - 1) : Slot(results, k, "swingLowMarker") # Undefined

\* ------------------------------------------------------------ C15
\* The channel of a break, from its level, classification and direction.
ChannelOf(level, class, dir) ==
  IF level = "swing"
    THEN (IF class = "CHoCH"
            THEN (IF dir = "Bull" THEN "swingChochBull" ELSE "swingChochBear")
            ELSE (IF dir = "Bull" THEN "swingBosBull" ELSE "swingBosBear"))
    ELSE (IF class = "CHoCH"
            THEN (IF dir = "Bull" THEN "internalChochBull" ELSE "internalChochBear")
            ELSE (IF dir = "Bull" THEN "internalBosBull" ELSE "internalBosBear"))

\* The check the next step runs: its level and direction, when pc is at one.
CheckPcs == {"swingBull", "swingBear", "internalBull", "internalBear"}
LevelAt == IF pc \in {"swingBull", "swingBear"} THEN "swing" ELSE "internal"
DirAt == IF pc \in {"swingBull", "internalBull"} THEN "Bull" ELSE "Bear"

\* A live pivot of the check's list lies before bar i and the close breaks it.
Accepts ==
  /\ pc \in CheckPcs
  /\ \E k \in 1..Len(Live(LevelAt, DirAt)) :
       /\ Live(LevelAt, DirAt)[k].index < i
       /\ IF DirAt = "Bull" THEN Close(i) > Live(LevelAt, DirAt)[k].price
                            ELSE Close(i) < Live(LevelAt, DirAt)[k].price

\* C15: a check that accepts a break appends exactly one event record and
\* writes exactly one channel, the one named by the record's key, which is
\* the channel of its level, classification and direction; after the step
\* every bar of [pivotIndex, breakIndex] holds the pivot's price there. A
\* step that accepts no break appends no record and writes no break channel.
C15_StepWrites ==
  /\ Accepts =>
       /\ Len(pivots') = Len(pivots) + 1
       /\ SubSeq(pivots', 1, Len(pivots)) = pivots
       /\ LET e == pivots'[Len(pivots')] IN
            /\ e.level = LevelAt
            /\ Direction(e) = DirAt
            /\ e.breakIndex = i
            /\ e.key = ChannelOf(e.level, Classification(e), Direction(e))
            /\ \A j \in e.pivotIndex..e.breakIndex : Slot(results', j, e.key) = e.price
            /\ \A j \in 0..(n - 1), key \in BreakKeys \ {e.key} :
                 Slot(results', j, key) = Slot(results, j, key)
  /\ ~Accepts =>
       /\ pivots' = pivots
       /\ \A j \in 0..(n - 1), key \in BreakKeys :
            Slot(results', j, key) = Slot(results, j, key)

C15_EventAndWrite == [][C15_StepWrites]_vars

\* The event just written spans three bars or more and runs over bars that
\* held another price on its channel from an earlier event.
C15_Witness ==
  /\ pc \in CheckPcs \cup {"return"}
  /\ Len(pivots) >= 2
  /\ LET e == pivots[Len(pivots)] IN
       /\ e.breakIndex - e.pivotIndex >= 2
       /\ \A j \in e.pivotIndex..e.breakIndex : Slot(results, j, e.key) = e.price
       /\ \E a \in 1..(Len(pivots) - 1) :
            /\ pivots[a].key = e.key
            /\ pivots[a].price # e.price
            /\ pivots[a].breakIndex >= e.pivotIndex

\* ------------------------------------------------------------ C16
\* The scheduler of calc is the JavaScript call itself: a step that can run
\* does run.
SpecFair == InitFlat /\ [][Next]_vars /\ WF_vars(Next)

\* dataList[...] indices the step at pc reads.
BarReads ==
  IF pc = "scanSwing" THEN (i - swingLength)..i
  ELSE IF pc = "scanInternal" THEN (i - internalLength)..i
  ELSE IF pc \in CheckPcs THEN {i}
  ELSE {}

\* results[...] indices writeRange(key, start, end, price) reads, deletes or
\* writes: the backward walk from Math.max(0, start - 1), the run it finds,
\* and the range start..end.
writeRangeUses(res, key, start, end) ==
  LET from == Max(0, start - 1)
      rs == runStart(res, key, from)
  IN {from} \cup (start..end)
       \cup (IF rs = Null THEN {} ELSE Max(0, rs - 1)..runEnd(res, key, rs))

\* results[...] indices the step at pc reads or writes.
SlotUses ==
  IF pc = "scanSwing" THEN {i - swingLength}
  ELSE IF pc \in CheckPcs
    THEN LET list == Live(LevelAt, DirAt)
             k == FirstBreak(list, 1, i, Close(i), DirAt)
         IN IF k = 0 THEN {}
            ELSE writeRangeUses(results, BreakKey(LevelAt, DirAt, Trend(LevelAt)),
                                list[k].index, i)
  ELSE {}

\* C16: on bars with numeric fields and positive lookbacks calc never fails,
\* every step reads bars and reads or writes result slots inside 0..n-1 only,
\* results has one slot per bar throughout, and calc reaches its return.
C16_Safe ==
  /\ pc # "TypeError"
  /\ BarReads \subseteq 0..(n - 1)
  /\ SlotUses \subseteq 0..(n - 1)
  /\ Len(results) = n

C16_Total == []C16_Safe /\ <>(pc = "done")

\* calc has returned after writing a range that starts at bar 0 and a range
\* that ends at the last bar.
C16_Witness ==
  /\ pc = "done"
  /\ n >= 3
  /\ Len(results) = n
  /\ \E e, f \in Events : e.pivotIndex = 0 /\ f.breakIndex = n - 1

\* ------------------------------------------------------------ C17
\* Candles that close at their low, over longer sequences: a bar can set a
\* pivot-high above an earlier one without closing above it.
MaxLowBars == 5
LowCloseBarSet == {b \in BarSet : b.close = b.low}

InitLow ==
  \E bars \in BarSeqs(LowCloseBarSet, MaxLowBars), sl \in Lengths, il \in Lengths :
    /\ Setup(bars, sl, il)
    /\ pc = StartSwing[1]
    /\ i = StartSwing[2]

SpecLow == InitLow /\ [][Next]_vars

\* The live pivots of the running check that lie before bar i and that the
\* close of bar i breaks.
Qualifying ==
  LET list == Live(LevelAt, DirAt) IN
    {k \in 1..Len(list) :
       /\ list[k].index < i
       /\ IF DirAt = "Bull" THEN Close(i) > list[k].price ELSE Close(i) < list[k].price}

\* The running check's list as the step leaves it.
LiveAfter ==
  IF pc = "swingBull" THEN swingHighs'
  ELSE IF pc = "swingBear" THEN swingLows'
  ELSE IF pc = "internalBull" THEN internalHighs'
  ELSE internalLows'

\* C17: the pivot a check consumes is the earliest-inserted of the live
\* pivots that qualify, which is the one of smallest index, whatever the
\* prices of the others; the others stay in the list in their order.
C17_StepEarliest ==
  Accepts =>
    LET list == Live(LevelAt, DirAt)
        first == CHOOSE k \in Qualifying : \A m \in Qualifying : k <= m
        e == pivots'[Len(pivots')]
    IN /\ e.pivotIndex = list[first].index
       /\ e.price = list[first].price
       /\ \A m \in Qualifying : list[first].index <= list[m].index
       /\ LiveAfter =
            [m \in 1..(Len(list) - 1) |-> IF m < first THEN list[m] ELSE list[m + 1]]

C17_Earliest == [][C17_StepEarliest]_vars

\* A bullish check has just consumed a pivot-high while a later pivot-high,
\* priced higher and nearer to the close, qualified too and is still live.
C17_Witness ==
  /\ pc \in {"swingBear", "internalBear"}
  /\ pivots # <<>>
  /\ LET e == pivots[Len(pivots)]
         list == Highs(LevelAt)
     IN /\ e.breakIndex = i
        /\ e.level = LevelAt
        /\ Direction(e) = "Bull"
        /\ \E k \in 1..Len(list) :
             /\ list[k].index > e.pivotIndex
             /\ list[k].index < i
             /\ list[k].price > e.price
             /\ list[k].price < Close(i)

\* ------------------------------------------------------------ C18
\* Flat bars over sequences long enough for a pivot that qualified on one bar
\* to be consumed on a later one.
MaxLongBars == 6

InitLong ==
  \E bars \in BarSeqs(FlatBarSet, MaxLongBars), sl \in Lengths, il \in Lengths :
    /\ Setup(bars, sl, il)
    /\ pc = StartSwing[1]
    /\ i = StartSwing[2]

SpecLong == InitLong /\ [][Next]_vars

\* C18: a check emits at most one event, so a level has at most one bullish
\* and at most one bearish event per bar; the check removes from its list
\* the one pivot it consumed and nothing else, so the other pivots that
\* qualified stay live for later bars, and no check touches another list.
C18_StepOnePerBar ==
  /\ Len(pivots') <= Len(pivots) + 1
  /\ \A a, b \in 1..Len(pivots') :
       (/\ pivots'[a].level = pivots'[b].level
        /\ Direction(pivots'[a]) = Direction(pivots'[b])
        /\ pivots'[a].breakIndex = pivots'[b].breakIndex) => a = b
  /\ pc \in CheckPcs =>
       LET list == Live(LevelAt, DirAt) IN
         /\ Len(LiveAfter) = Len(list) - (IF Accepts THEN 1 ELSE 0)
         /\ ~Accepts => LiveAfter = list
         /\ Accepts => \E gone \in Qualifying :
              LiveAfter = [m \in 1..(Len(list) - 1) |->
                             IF m < gone THEN list[m] ELSE list[m + 1]]
         /\ \A m \in Qualifying :
              m # (CHOOSE k \in Qualifying : \A m2 \in Qualifying : k <= m2) =>
                \E k \in 1..Len(LiveAfter) : LiveAfter[k] = list[m]
         /\ pc # "swingBull" => swingHighs' = swingHighs
         /\ pc # "swingBear" => swingLows' = swingLows
         /\ pc # "internalBull" => internalHighs' = internalHighs
         /\ pc # "internalBear" => internalLows' = internalLows

C18_OnePerBar == [][C18_StepOnePerBar]_vars

\* Two pivot-highs of a level qualified on one bar; that bar consumed one and
\* a later bar consumed the other.
C18_Witness ==
  \E e, f \in Events :
    /\ e.level = f.level
    /\ Direction(e) = "Bull"
    /\ Direction(f) = "Bull"
    /\ e.breakIndex < f.breakIndex
    /\ f.pivotIndex < e.breakIndex
    /\ f.price < Close(e.breakIndex)

\* ------------------------------------------------------------ C19
\* The scan the step at pc belongs to: its lookback, register and lists.
ScanPcs == {"scanSwing", "scanInternal"}
ScanLength == IF pc = "scanSwing" THEN swingLength ELSE internalLength
ScanOs == IF pc = "scanSwing" THEN swingOs ELSE internalOs
ScanHighs == IF pc = "scanSwing" THEN swingHighs ELSE internalHighs
ScanLows == IF pc = "scanSwing" THEN swingLows ELSE internalLows
ScanOsAfter == IF pc = "scanSwing" THEN swingOs' ELSE internalOs'
ScanHighsAfter == IF pc = "scanSwing" THEN swingHighs' ELSE internalHighs'
ScanLowsAfter == IF pc = "scanSwing" THEN swingLows' ELSE internalLows'

\* Candidate p against the bars p+1 .. p+len that follow it.
TopAt(len, p) ==
  \A j \in (p + 1)..(p + len) : Bar(dataList, p).high > Bar(dataList, j).high
BottomAt(len, p) ==
  /\ ~TopAt(len, p)
  /\ \A j \in (p + 1)..(p + len) : Bar(dataList, p).low < Bar(dataList, j).low

\* C19: a scan with lookback L starts at i = L with an unset register and
\* empty lists, steps i by one up to n-1, and at each i evaluates candidate
\* p = i - L: the register becomes Top when high[p] exceeds every high of
\* bars p+1..i, else Bottom when low[p] undercuts every low there, else it
\* keeps its value; a pivot-high at p is pushed exactly when the register
\* becomes Top from another value, a pivot-low exactly when it becomes
\* Bottom from another value.
C19_StepScan ==
  pc \in ScanPcs =>
    LET len == ScanLength
        p == i - len
        top == TopAt(len, p)
        bottom == BottomAt(len, p)
    IN /\ len <= i /\ i < n
       /\ i = len => (ScanOs = Null /\ ScanHighs = <<>> /\ ScanLows = <<>>)
       /\ ScanOsAfter = (IF top THEN 0 ELSE IF bottom THEN 1 ELSE ScanOs)
       /\ ScanHighsAfter =
            (IF top /\ ScanOs # 0
               THEN Append(ScanHighs, [index |-> p, price |-> Bar(dataList, p).high])
               ELSE ScanHighs)
       /\ ScanLowsAfter =
            (IF bottom /\ ScanOs # 1
               THEN Append(ScanLows, [index |-> p, price |-> Bar(dataList, p).low])
               ELSE ScanLows)
       /\ IF i + 1 < n THEN pc' = pc /\ i' = i + 1 ELSE pc' # pc

PivotLevel(dir, k) ==
  IF dir = "Bull" THEN Bar(dataList, k).high ELSE Bar(dataList, k).low

\* C20: the price of an event is the high of the bar at its pivotIndex when
\* it is bullish and the low of that bar when it is bearish, and the close
\* of the bar at its breakIndex is strictly above that price when bullish
\* and strictly below it when bearish; a bar whose close equals the price
\* of a pivot is never the breakIndex of an event of that pivot.
C20_StrictBreak ==
  \A e \in Events :
    /\ e.price = PivotLevel(Direction(e), e.pivotIndex)
    /\ IF Direction(e) = "Bull" THEN Close(e.breakIndex) > e.price
                                ELSE Close(e.breakIndex) < e.price
    /\ Close(e.breakIndex) # PivotLevel(Direction(e), e.pivotIndex)

\* A later bar closed exactly at the price of a swing pivot-high, the run is
\* over and that pivot is still live, while another pivot was broken.
C20_Witness ==
  /\ pc = "done"
  /\ pivots # <<>>
  /\ \E m \in 1..Len(swingHighs) :
       /\ \E k \in (swingHighs[m].index + 1)..(n - 1) : Close(k) = swingHighs[m].price
       /\ \A k \in (swingHighs[m].index + 1)..(n - 1) : Close(k) <= swingHighs[m].price

\* ------------------------------------------------------------ C21
\* C21: the first break event a level emits in a run is classified BOS,
\* bullish or bearish, and a trend register that has left Neutral (0) is
\* never Neutral again in that run.
TrendNext(level) == IF level = "swing" THEN swingTrend' ELSE internalTrend'

C21_StepFirstBos ==
  /\ \A level \in Levels : Trend(level) # 0 => TrendNext(level) # 0
  /\ Len(pivots') > Len(pivots) =>
       LET e == pivots'[Len(pivots')] IN
         EventsOf(e.level) = {} =>
           /\ Classification(e) = "BOS"
           /\ Trend(e.level) = 0
           /\ TrendNext(e.level) # 0

C21_FirstIsBos == [][C21_StepFirstBos]_vars

\* A run is over in which the first event of a level was bearish and the
\* level emitted a second event afterwards.
C21_Witness ==
  /\ pc = "done"
  /\ \E a, b \in 1..Len(pivots) :
       /\ a < b
       /\ pivots[a].level = pivots[b].level
       /\ \A c \in 1..(a - 1) : pivots[c].level # pivots[a].level
       /\ Direction(pivots[a]) = "Bear"
       /\ Classification(pivots[a]) = "BOS"
       /\ Trend(pivots[a].level) # 0

\* ------------------------------------------------------------ C22
\* Bar k has a bullish and a bearish event of level.
TwoWayBar(level, k) ==
  \E e, f \in EventsOf(level) :
    /\ e.breakIndex = k
    /\ f.breakIndex = k
    /\ Direction(e) = "Bull"
    /\ Direction(f) = "Bear"

\* C22: a bar can emit a bullish and a bearish event of one level: on the
\* candles of TwoWayBars every level with lookback 1 ends with both a bullish
\* and a bearish event on the last bar.
C22_TwoWayReachable ==
  (pc = "done" /\ dataList = TwoWayBars) =>
    \A level \in Levels :
      LengthOf(level) = 1 => TwoWayBar(level, Len(TwoWayBars) - 1)

\* The swing level has a bar with a bullish and a bearish event, and the
\* internal level, with another lookback, has none.
C22_Witness ==
  /\ pc = "done"
  /\ \E k \in 0..(n - 1) : TwoWayBar("swing", k)
  /\ \A k \in 0..(n - 1) : ~TwoWayBar("internal", k)

\* ------------------------------------------------------------ C23
\* Well-formed candles on which the last bar breaks a pivot-high and a
\* pivot-low of the lookback-1 level while that level's register is Bearish:
\* bar 9 closes below the pivot-low of bar 1 after the bullish breaks of
\* bars 7 and 8.
TwoWayBearBars ==
  <<[high |-> 3, low |-> 2, close |-> 2], [high |-> 2, low |-> 2, close |-> 2],
    [high |-> 3, low |-> 3, close |-> 3], [high |-> 2, low |-> 2, close |-> 2],
    [high |-> 3, low |-> 3, close |-> 3], [high |-> 2, low |-> 2, close |-> 2],
    [high |-> 6, low |-> 2, close |-> 2], [high |-> 5, low |-> 5, close |-> 5],
    [high |-> 6, low |-> 6, close |-> 6], [high |-> 3, low |-> 1, close |-> 1],
    [high |-> 4, low |-> 2, close |-> 4]>>

InitTwoWay ==
  \E bars \in BarSeqs(BarSet, MaxBars)
              \cup {SubSeq(TwoWayBars, 1, m) : m \in 0..Len(TwoWayBars)}
              \cup {SubSeq(TwoWayBearBars, 1, m) : m \in 0..Len(TwoWayBearBars)},
     sl \in Lengths, il \in Lengths :
    /\ Setup(bars, sl, il)
    /\ pc = StartSwing[1]
    /\ i = StartSwing[2]

SpecTwoWay == InitTwoWay /\ [][Next]_vars

\* Both checks of level have run on bar k and none has run on a later bar.
AfterBar(level, k) ==
  \/ k = n - 1 /\ pc \in {"return", "done"}
  \/ i = k + 1 /\ pc = "swingBull"
  \/ level = "swing" /\ i = k /\ pc \in {"internalBull", "internalBear"}
  \/ level = "internal" /\ i = k + 1 /\ pc \in {"swingBear", "internalBull"}

\* C23: when one bar has a bullish and a bearish event of the same level,
\* the bearish event is a CHoCH, whatever the register held before the bar,
\* and the level's register is Bearish (-1) after the bar.
C23_TwoWayIsChoch ==
  \A level \in Levels :
    \A k \in 0..(n - 1) :
      TwoWayBar(level, k) =>
        /\ \A f \in EventsOf(level) :
             (f.breakIndex = k /\ Direction(f) = "Bear") => Classification(f) = "CHoCH"
        /\ AfterBar(level, k) => Trend(level) = 0 - 1

\* A bar entered with the register Bearish has just emitted a bullish CHoCH
\* and a bearish CHoCH of the same level.
C23_Witness ==
  \E level \in Levels :
    \E k \in 0..(n - 1) :
      /\ AfterBar(level, k)
      /\ Trend(level) = 0 - 1
      /\ \E e, f \in EventsOf(level) :
           /\ e.breakIndex = k /\ f.breakIndex = k
           /\ Direction(e) = "Bull" /\ Classification(e) = "CHoCH"
           /\ Direction(f) = "Bear" /\ Classification(f) = "CHoCH"

\* ------------------------------------------------------------ C24
\* C24: on candles with low <= close <= high every event of a level with
\* lookback L has breakIndex > pivotIndex + L: no bar of the window that
\* confirms a pivot breaks it, although the break loop only asks for
\* pivot.index < i.
C24_BreakAfterConfirmation ==
  \A e \in Events : e.breakIndex > e.pivotIndex + LengthOf(e.level)

\* A pivot of the lookback-2 level was broken by the first bar after its
\* window, and the run is over.
C24_Witness ==
  /\ pc = "done"
  /\ \E e \in Events :
       /\ LengthOf(e.level) = 2
       /\ e.breakIndex = e.pivotIndex + 3

\* ------------------------------------------------------------ C25
\* Sequence a is an initial part of sequence b.
IsPrefix(a, b) == Len(a) <= Len(b) /\ SubSeq(b, 1, Len(a)) = a

\* C25: on candles with low <= close <= high, for every m the pivot-highs,
\* the pivot-lows and the events that a level computes on the first m bars
\* are initial parts of those it computes on the whole sequence: appended
\* bars add pivots and events and change none.
C25_NoRepaint ==
  \A m \in 0..n, level \in Levels :
    LET len == LengthOf(level)
        old == Pivots(Prefix(m), len)
    IN /\ ScansDone =>
            /\ IsPrefix(old.highs, Highs(level))
            /\ IsPrefix(old.lows, Lows(level))
       /\ pc = "done" =>
            IsPrefix(LevelEvents(Prefix(m), level, len), EventsUpTo(pivots, level, n))

\* The internal run on the sequence without its last bar already has an
\* event, and the last bar adds a pivot and an event to it.
C25_Witness ==
  /\ pc = "done"
  /\ n >= 1
  /\ LET len == internalLength
         old == Pivots(Prefix(n - 1), len)
         new == Pivots(dataList, len)
         was == LevelEvents(Prefix(n - 1), "internal", len)
     IN /\ was # <<>>
        /\ Len(EventsUpTo(pivots, "internal", n)) > Len(was)
        /\ Len(new.highs) + Len(new.lows) > Len(old.highs) + Len(old.lows)

\* ------------------------------------------------------------ C26
\* The indices of the pivots in list.
Indices(list) == {list[m].index : m \in 1..Len(list)}

\* list is in strictly increasing index order, and between two neighbours
\* of list lies a pivot of other.
Interleaved(list, other) ==
  \A m \in 1..(Len(list) - 1) :
    /\ list[m].index < list[m + 1].index
    /\ \E q \in Indices(other) : list[m].index < q /\ q < list[m + 1].index

\* Candidate p has a lower low than every bar of its window, whatever its high.
LowerLowAt(len, p) ==
  \A j \in (p + 1)..(p + len) : Bar(dataList, p).low < Bar(dataList, j).low

Truncated(res, key, start) ==
  LET rs == runStart(res, key, Max(0, start - 1))
  IN IF rs # Null /\ runEnd(res, key, rs) >= start
       THEN start..runEnd(res, key, rs)
       ELSE {}

\* results after the ranges of the first k events were written one after the
\* other by plain overwriting, starting from empty slots.
RECURSIVE PlainWrites(_)
PlainWrites(k) ==
  IF k = 0 THEN EmptyResults(n)
  ELSE FillRange(PlainWrites(k - 1), pivots[k].key, pivots[k].pivotIndex,
                 pivots[k].breakIndex, pivots[k].price)

\* A check that accepts a break deletes nothing outside the range it then
\* writes, and leaves results as a plain overwrite of the range would.
C27_StepPlain ==
  Accepts =>
    LET e == pivots'[Len(pivots')] IN
      /\ Truncated(results, e.key, e.pivotIndex) \subseteq e.pivotIndex..e.breakIndex
      /\ results' = FillRange(results, e.key, e.pivotIndex, e.breakIndex, e.price)

\* The break channels hold what plain overwriting of the events' ranges, in
\* event order, gives.
C27_PlainMap ==
  pc \in CheckPcs \cup {"return", "done"} =>
    \A key \in BreakKeys, j \in 0..(n - 1) :
      Slot(results, j, key) = Slot(PlainWrites(Len(pivots)), j, key)

\* C27: in calc every index that writeRange's truncation deletes lies in the
\* range the same call writes, so each call acts as a plain overwrite of
\* [pivotIndex, breakIndex], and the channel map is the one obtained by
\* overwriting the ranges of the events in order.
C27_TruncationRewritten == []C27_PlainMap /\ [][C27_StepPlain]_vars

\* An event's range started inside the run of an earlier event of the same
\* channel with another price: the truncation deleted the overlap, and the
\* bars below the new start kept the earlier price.
C27_Witness ==
  /\ pc = "done"
  /\ \E a, b \in 1..Len(pivots) :
       /\ a < b
       /\ pivots[a].key = pivots[b].key
       /\ pivots[a].price # pivots[b].price
       /\ pivots[a].pivotIndex < pivots[b].pivotIndex
       /\ pivots[b].pivotIndex <= pivots[a].breakIndex
       /\ Slot(results, pivots[b].pivotIndex - 1, pivots[a].key) = pivots[a].price
       /\ Slot(results, pivots[b].pivotIndex, pivots[a].key) = pivots[b].price

\* ------------------------------------------------------------ C28
\* The pivots of a level and kind that the scans detected.
Detected(level, dir) ==
  IF dir = "Bull" THEN Pivots(dataList, LengthOf(level)).highs
                  ELSE Pivots(dataList, LengthOf(level)).lows

\* Each register holds -1, 0 or 1 and, once the scans are over, the pivots
\* gone from a live list are as many as the events of that level and
\* direction.
C28_Counts ==
  /\ swingTrend \in {0 - 1, 0, 1}
  /\ internalTrend \in {0 - 1, 0, 1}
  /\ pc \in CheckPcs \cup {"return", "done"} =>
       \A level \in Levels, dir \in {"Bull", "Bear"} :
         Len(Detected(level, dir)) - Len(Live(level, dir))
           = Cardinality({a \in 1..Len(pivots) :
                            pivots[a].level = level /\ Direction(pivots[a]) = dir})

\* A step that shortens a live list removes one pivot and appends the event
\* of that pivot; no other step changes a live list once the scans are over.
C28_StepRemoves ==
  pc \in CheckPcs =>
    LET list == Live(LevelAt, DirAt) IN
      \/ LiveAfter = list /\ pivots' = pivots
      \/ \E k \in 1..Len(list) :
           /\ LiveAfter = [m \in 1..(Len(list) - 1) |->
                             IF m < k THEN list[m] ELSE list[m + 1]]
           /\ Len(pivots') = Len(pivots) + 1
           /\ LET e == pivots'[Len(pivots')] IN
                /\ e.pivotIndex = list[k].index
                /\ e.price = list[k].price
                /\ e.level = LevelAt
                /\ Direction(e) = DirAt
                /\ e.breakIndex = i

\* C28: each trend register only holds -1, 0 or 1, a pivot leaves a live
\* list only in a step that also emits the event of that pivot, and for each
\* level and kind the pivots removed are as many as the events of that level
\* and direction; this includes the swing bearish loop, whose BOS branch is
\* an else-if with no branch after it.
C28_RemovedIsEmitted == []C28_Counts /\ [][C28_StepRemoves]_vars

\* The swing bearish loop has just taken its else-if branch with the
\* register at -1: a bearish swing BOS after an earlier bearish swing event.
C28_Witness ==
  /\ pc = "internalBull"
  /\ Len(pivots) >= 2
  /\ pivots[Len(pivots)].key = "swingBosBear"
  /\ pivots[Len(pivots)].breakIndex = i
  /\ \E a \in 1..(Len(pivots) - 1) :
       /\ pivots[a].level = "swing"
       /\ Direction(pivots[a]) = "Bear"
       /\ \A b \in (a + 1)..(Len(pivots) - 1) : pivots[b].level # "swing"

\* ------------------------------------------------------------ C29
\* The events of a level in emission order, without the names that tell the
\* levels apart: pivotIndex, breakIndex, price, classification, direction.
Facts(level) ==
  LET ev == EventsUpTo(pivots, level, n)
  IN [k \in 1..Len(ev) |->
        [pivotIndex |-> ev[k].pivotIndex, breakIndex |-> ev[k].breakIndex,
         price |-> ev[k].price, class |-> Classification(ev[k]),
         dir |-> Direction(ev[k])]]

\* C29: with swingLength = internalLength the two levels hold the same
\* pivots when the scans are over, and between bars and at the end the same
\* live pivots, the same register, the same events (pivotIndex, breakIndex,
\* price, classification, direction) and, on every bar, the same value in
\* each internal break channel as in the corresponding swing break channel.
C29_LevelsAlike ==
  swingLength = internalLength =>
    /\ ScansDone => (swingHighs = internalHighs /\ swingLows = internalLows)
    /\ pc \in {"swingBull", "return", "done"} =>
         /\ swingHighs = internalHighs
         /\ swingLows = internalLows
         /\ swingTrend = internalTrend
         /\ Facts("swing") = Facts("internal")
         /\ \A j \in 0..(n - 1), class \in {"BOS", "CHoCH"}, dir \in {"Bull", "Bear"} :
              Slot(results, j, ChannelOf("internal", class, dir))
                = Slot(results, j, ChannelOf("swing", class, dir))

\* A run with equal lookbacks is over; the swing level emitted a BOS and a
\* CHoCH and left a range on a swing channel.
C29_Witness ==
  /\ pc = "done"
  /\ swingLength = internalLength
  /\ \E e, f \in EventsOf("swing") :
       /\ Classification(e) = "BOS"
       /\ Classification(f) = "CHoCH"
       /\ Slot(results, f.breakIndex, f.key) = f.price
  /\ EventsOf("internal") # {}

\* ------------------------------------------------------------ C30
\* A check that accepts a break leaves every other channel, the markers
\* included, and every bar below the event's pivotIndex as they were.
C30_StepFrame ==
  Accepts =>
    LET e == pivots'[Len(pivots')] IN
      /\ \A j \in 0..(n - 1), key \in Keys \ {e.key} :
           Slot(results', j, key) = Slot(results, j, key)
      /\ \A j \in 0..(e.pivotIndex - 1) :
           Slot(results', j, e.key) = Slot(results, j, e.key)

\* A defined break-channel slot lies in the range of an event of its channel.
C30_DefinedIsCovered ==
  \A key \in BreakKeys, j \in 0..(n - 1) :
    Slot(results, j, key) # Undefined => Covering(key, j) # {}

\* C30: writing an event's range changes only the event's own channel and
\* no bar below its pivotIndex, so an earlier run of that channel that
\* reached the new start keeps its values up to pivotIndex - 1; and a
\* break-channel slot of bar j is defined only if an event of that channel
\* has pivotIndex <= j <= breakIndex.
C30_WriteFrame == []C30_DefinedIsCovered /\ [][C30_StepFrame]_vars

\* A range has just been written from inside an earlier run of its channel;
\* the bar below the new start still holds the earlier price, and another
\* channel holds a range of its own.
C30_Witness ==
  /\ pc \in CheckPcs \cup {"return"}
  /\ Len(pivots) >= 3
  /\ LET e == pivots[Len(pivots)] IN
       /\ \E a \in 1..(Len(pivots) - 1) :
            /\ pivots[a].key = e.key
            /\ pivots[a].pivotIndex < e.pivotIndex
            /\ pivots[a].breakIndex >= e.pivotIndex
            /\ pivots[a].price # e.price
            /\ Slot(results, e.pivotIndex - 1, e.key) = pivots[a].price
       /\ \E key \in BreakKeys \ {e.key}, j \in 0..(n - 1) :
            Slot(results, j, key) # Undefined

\* ------------------------------------------------------------ C31
\* The bars of [k - len, k + len] other than k that exist.
Around(len, k) == {j \in (k - len)..(k + len) : j # k /\ j >= 0 /\ j < n}

\* Bar k has its whole window inside the data and a high above (a low
\* below) every other bar of the window.
SymTopAt(len, k) ==
  /\ len <= k /\ k < n - len
  /\ \A j \in Around(len, k) : Bar(dataList, k).high > Bar(dataList, j).high
SymBottomAt(len, k) ==
  /\ len <= k /\ k < n - len
  /\ \A j \in Around(len, k) : Bar(dataList, k).low < Bar(dataList, j).low

\* The bars the detection loop of the symmetric-window calc has gone through.
SymSeen == IF pc = "symDetect" THEN 0..(i - 1) ELSE 0..(n - 1)

\* C31: in the symmetric-window calc, while and once its detection loop has
\* run, bar k is in a level's pivot-high list if and only if L <= k < n - L
\* and high[k] is strictly above every other high of [k - L, k + L], with
\* high[k] as its price and once only; likewise for pivot-lows with the
\* lows; so no bar within L bars of either end is a pivot.
C31_SymWindow ==
  (pc = "symDetect" \/ SymDetected) =>
    \A level \in Levels :
      LET len == LengthOf(level) IN
        /\ Indices(Highs(level)) = {k \in SymSeen : SymTopAt(len, k)}
        /\ Indices(Lows(level)) = {k \in SymSeen : SymBottomAt(len, k)}
        /\ Cardinality(Indices(Highs(level))) = Len(Highs(level))
        /\ Cardinality(Indices(Lows(level))) = Len(Lows(level))
        /\ \A m \in 1..Len(Highs(level)) :
             Highs(level)[m].price = Bar(dataList, Highs(level)[m].index).high
        /\ \A m \in 1..Len(Lows(level)) :
             Lows(level)[m].price = Bar(dataList, Lows(level)[m].index).low
        /\ \A q \in Indices(Highs(level)) \cup Indices(Lows(level)) :
             len <= q /\ q < n - len

\* The detection is over: the swing level has a pivot-high, while a bar
\* nearer than L to the start is above all its neighbours and a bar with a
\* full window ties with a neighbour for the lowest low, and neither is a
\* pivot.
C31_Witness ==
  /\ SymDetected
  /\ swingHighs # <<>>
  /\ \E k \in 0..(swingLength - 1) :
       /\ \A j \in Around(swingLength, k) : Bar(dataList, k).high > Bar(dataList, j).high
       /\ k \notin Indices(swingHighs)
  /\ \E k \in swingLength..(n - swingLength - 1) :
       /\ \A j \in Around(swingLength, k) : Bar(dataList, k).low <= Bar(dataList, j).low
       /\ k \notin Indices(swingLows)

\* ------------------------------------------------------------ C32
\* The marker channel of a kind of swing pivot and the bar field it shows.
MarkerOf(dir) == IF dir = "Bull" THEN "swingHighMarker" ELSE "swingLowMarker"

\* Once the swing scan is over, a marker is set on bar p exactly when the
\* scan emitted a swing pivot of that kind at p, and holds the bar's high
\* (pivot-high) or low (pivot-low).
C32_Markers ==
  pc \in {"scanInternal", "return", "done"} \cup CheckPcs =>
    \A dir \in {"Bull", "Bear"} :
      LET emitted == Indices(Detected("swing", dir)) IN
        \A p \in 0..(n - 1) :
          /\ Slot(results, p, MarkerOf(dir)) # Undefined <=> p \in emitted
          /\ Slot(results, p, MarkerOf(dir)) # Undefined
               => Slot(results, p, MarkerOf(dir)) = PivotLevel(dir, p)

\* No step after the swing scan writes a marker: not the internal scan, which
\* leaves results alone, and not a break, which consumes a pivot.
C32_StepKeeps ==
  /\ pc = "scanInternal" => results' = results
  /\ pc \in CheckPcs =>
       \A key \in MarkerKeys, p \in 0..(n - 1) :
         Slot(results', p, key) = Slot(results, p, key)

\* C32: after calc swingHighMarker is defined on bar p if and only if a swing
\* pivot-high was emitted at p, with value high[p], and swingLowMarker if
\* and only if a swing pivot-low was emitted at p, with value low[p]; a
\* marker stays set when its pivot is consumed by a break, and internal
\* pivots write no marker.
C32_MarkersMatchPivots == []C32_Markers /\ [][C32_StepKeeps]_vars

\* calc has returned; a swing pivot-high was consumed by a break and its
\* marker still shows its price, and an internal pivot sits on a bar that
\* has no marker.
C32_Witness ==
  /\ pc = "done"
  /\ \E e \in EventsOf("swing") :
       /\ Direction(e) = "Bull"
       /\ Slot(results, e.pivotIndex, "swingHighMarker") = e.price
       /\ \A m \in 1..Len(swingHighs) : swingHighs[m].index # e.pivotIndex
  /\ \E q \in Indices(Detected("internal", "Bull")) \cup Indices(Detected("internal", "Bear")) :
       /\ Slot(results, q, "swingHighMarker") = Undefined
       /\ Slot(results, q, "swingLowMarker") = Undefined

====
